---- MODULE Spec2Model ----
(***************************************************************************)
(* A model of scripts/auto_login.py: the Telegram relay (send, flush,      *)
(* wait_code), the SecretUpdater, and the AutoLogin.run stage machine with *)
(* its three challenge resolvers.                                          *)
(*                                                                         *)
(* Three specifications share the module:                                  *)
(*   SpecPattern  the /code pattern of wait_code applied to bounded texts  *)
(*   SpecRelay    one Telegram.wait_code call against the relay's queue    *)
(*   Spec         one AutoLogin.run from process start to process exit     *)
(***************************************************************************)
EXTENDS Naturals, Integers, Sequences, FiniteSets, TLC

VARIABLES
    \* ---- SpecPattern
    ptext,        \* the message text handed to the pattern
    pdone,        \* the pattern has been applied
    pres,         \* NoMatch, or the captured digit string
    \* ---- SpecRelay
    relayOk,      \* Telegram.ok of the waiting object
    msgs,         \* every update the relay ever held; update_id = index
    confirmed,    \* the relay forgets updates with update_id < confirmed
    wcPc,         \* position inside wait_code
    offset,       \* wait_code's local cursor
    wcResult,     \* NoMatch (None), or the returned digit string
    wcFrom,       \* update_id the returned code was read from (0: none)
    staleIds,     \* update_ids pending when flush_updates was called
    rounds,       \* polling rounds performed
    examined,     \* update_ids the for-loop has looked at
    skipped,      \* update_ids dropped by the chat-id filter
    instrAt,      \* updates the relay held when the instruction was sent (line 352)
    \* ---- Spec: configuration (the environment variables read at start)
    credsOk,      \* GH_USERNAME and GH_PASSWORD are both set
    haveSession,  \* GH_SESSION is set
    tgOk,         \* Telegram.ok: TG_BOT_TOKEN and TG_CHAT_ID are both set
    secretOk,     \* SecretUpdater.ok: REPO_TOKEN and GITHUB_REPOSITORY set
    \* ---- Spec: control
    pc,           \* the statement of run (or of a callee) about to execute
    iter,         \* the loop variable (i) of the loop pc is in
    ret,          \* where keepalive returns to
    navUrl,       \* page.url as read at line 609, after the first navigation
    \* ---- Spec: process
    browser,      \* "none", "open", "closed", or "close_failed": close() raised
    pendingExit,  \* the status of the sys.exit / return travelling to finally
    exitStatus,   \* the process's exit status, Running until it ends
    uncaught,     \* an exception left run without being handled
    \* ---- Spec: reporting
    notifyCount,  \* calls of AutoLogin.notify
    reported,     \* "none", "success" or "failure": what notify was given
    logs,         \* tags of the log entries appended so far
    calls,        \* the methods of AutoLogin invoked so far, in order
    \* ---- Spec: challenge resolvers
    wdResult,     \* wait_device: "none", "true" or "false"
    wdHow,        \* wait_device returned from a periodic "check" or at "expiry"
    wdExpSeen,    \* the device-path substrings of page.url as read at line 267
    tfmResult,    \* wait_two_factor_mobile: "none", "true" or "false"
    tfmSawLogin,  \* its loop read a plain-login URL
    codeResult,   \* handle_2fa_code_input: "none", "true" or "false"
    fills,        \* successful el.fill(code) calls
    submits,      \* Verify clicks and Enter presses that went through
    failedBy,     \* why login_github returned False
    \* ---- Spec: credential
    newCookie,    \* get_session: "unread", "none" or "value"
    keyStatus,    \* status of the public-key GET (NoResponse: none)
    putStatus,    \* status of the secret PUT (NoResponse: none)
    keyGets,      \* public-key GET requests made
    puts,         \* secret PUT requests made
    stored,       \* the remote store confirmed the update
    literalSend,  \* tg.send of the literal cookie: "none", "noop", "failed", "delivered"
    autoSend,     \* tg.send of the "automatically updated" note, likewise
    kaAttempts,   \* keepalive pages attempted
    kaFails,      \* keepalive pages whose visit raised
    \* ---- Spec: hand-off, redirect wait, verification
    url,          \* run's local url (line 635) while the branch at 641 needs it
    verified,     \* which of 'claw.cloud', 'signin' the reads at line 659 found
    wrResult,     \* wait_redirect: "none", "true" or "false"
    wrSeen,       \* the tested substrings of url in wait_redirect's latest iteration
    wrOauth       \* that iteration called self.oauth(page)

patternVars == <<ptext, pdone, pres>>
relayVars == <<relayOk, msgs, confirmed, wcPc, offset, wcResult, wcFrom,
               staleIds, rounds, examined, skipped, instrAt>>
cfgVars == <<credsOk, haveSession, tgOk, secretOk>>
procVars == <<browser, pendingExit, exitStatus, uncaught>>
reportVars == <<notifyCount, reported>>
deviceVars == <<wdResult, wdHow, wdExpSeen>>
mobileVars == <<tfmResult, tfmSawLogin>>
codeVars == <<codeResult, fills, submits>>
credVars == <<newCookie, keyStatus, putStatus, keyGets, puts, stored,
              literalSend, autoSend>>
kaVars == <<kaAttempts, kaFails>>
redirectVars == <<url, verified, wrResult, wrSeen, wrOauth>>
runVars == <<cfgVars, pc, iter, ret, navUrl, procVars, reportVars, logs, calls,
             deviceVars, mobileVars, codeVars, failedBy, credVars, kaVars,
             redirectVars>>
vars == <<patternVars, relayVars, runVars>>

\* a failed match and wait_code's None: the empty text (a code has >= 6 digits)
NoMatch == <<>>

(***************************************************************************)
(* Texts are tuples of one-character strings.                              *)
(***************************************************************************)
Whitespace == {" ", "\t", "\n"}
Digits == {"0", "1", "2", "3", "4", "5", "6", "7", "8", "9"}
DigitChars == <<"1", "2", "3", "4", "5", "6", "7", "8", "9", "0">>
CodeToken == <<"/", "c", "o", "d", "e">>

MinCodeLen == 6
MaxCodeLen == 8

IsSpace(ch) == ch \in Whitespace
IsDigit(ch) == ch \in Digits

\* str.strip(): leading, then trailing whitespace removed
RECURSIVE LStrip(_)
LStrip(t) == IF t # <<>> /\ IsSpace(Head(t)) THEN LStrip(Tail(t)) ELSE t

RECURSIVE RStrip(_)
RStrip(t) ==
    IF t # <<>> /\ IsSpace(t[Len(t)]) THEN RStrip(SubSeq(t, 1, Len(t) - 1)) ELSE t

Strip(t) == RStrip(LStrip(t))

\* the number of consecutive characters of class cls from position i on
RECURSIVE RunLen(_, _, _)
RunLen(t, i, cls) ==
    IF i <= Len(t) /\ t[i] \in cls THEN 1 + RunLen(t, i + 1, cls) ELSE 0

\* `$` of a non-MULTILINE pattern: the end, or just before a final newline
AtDollar(t, pos) == pos = Len(t) + 1 \/ (pos = Len(t) /\ t[pos] = "\n")

\* \d{6,8} is greedy: it takes as many digits as there are, up to 8
DigitsTaken(avail) == IF avail > MaxCodeLen THEN MaxCodeLen ELSE avail

\* a plausible slip: the pattern without its closing anchor
PatternMatchUnanchored(t) ==
    LET k == RunLen(t, Len(CodeToken) + 1, Whitespace)
        d == DigitsTaken(RunLen(t, Len(CodeToken) + 1 + k, Digits))
    IN  IF /\ Len(t) >= Len(CodeToken)
           /\ SubSeq(t, 1, Len(CodeToken)) = CodeToken
           /\ k >= 1
           /\ d >= MinCodeLen
        THEN SubSeq(t, Len(CodeToken) + k + 1, Len(CodeToken) + k + d)
        ELSE NoMatch

\* re.compile(r"^/code\s+(\d{6,8})$").match(t): group(1) or NoMatch
PatternMatch(t) ==
    LET k == RunLen(t, Len(CodeToken) + 1, Whitespace)
        d == DigitsTaken(RunLen(t, Len(CodeToken) + 1 + k, Digits))
    IN  IF /\ Len(t) >= Len(CodeToken)
           /\ SubSeq(t, 1, Len(CodeToken)) = CodeToken
           /\ k >= 1
           /\ d >= MinCodeLen
           /\ AtDollar(t, Len(CodeToken) + k + d + 1)
        THEN SubSeq(t, Len(CodeToken) + k + 1, Len(CodeToken) + k + d)
        ELSE NoMatch

\* wait_code: text = (msg.get("text") or "").strip(); m = pattern.match(text)
AcceptText(t) == PatternMatch(Strip(t))

(***************************************************************************)
(* SpecPattern: the pattern applied to a bounded family of texts.          *)
(***************************************************************************)
MaxDigits == 10
MaxGap == 2

DigitStr(n) == [i \in 1..n |-> DigitChars[((i - 1) % 10) + 1]]
Spaces(n) == [i \in 1..n |-> " "]
Extra == <<" ", "e", "x", "t", "r", "a">>

Leads == {<<>>, <<" ">>, <<"\n">>}
Tokens == {CodeToken, Tail(CodeToken), <<"/", "c", "o", "d">>,
           <<"/", "c", "o", "d", "e", "x">>}
Gaps == {Spaces(n) : n \in 0..MaxGap} \cup {<<"\t">>, <<"x">>}
Trails == {<<>>, <<" ">>, <<"\n">>, <<"x">>, Extra, <<" ", "1">>}

PatternInputs ==
    {l \o tk \o g \o DigitStr(n) \o tr :
        l \in Leads, tk \in Tokens, g \in Gaps, n \in 4..MaxDigits, tr \in Trails}

(***************************************************************************)
(* The run's state before AutoLogin.run is entered.                        *)
(***************************************************************************)
Running == 0 - 1
NoResponse == 0
NotRead == {"<not read>"}

RunFresh ==
    /\ pc = "start"
    /\ iter = 0
    /\ ret = "none"
    /\ navUrl = NotRead
    /\ browser = "none"
    /\ pendingExit = Running
    /\ exitStatus = Running
    /\ uncaught = FALSE
    /\ notifyCount = 0
    /\ reported = "none"
    /\ logs = {}
    /\ calls = <<>>
    /\ wdResult = "none"
    /\ wdHow = "none"
    /\ wdExpSeen = NotRead
    /\ tfmResult = "none"
    /\ tfmSawLogin = FALSE
    /\ codeResult = "none"
    /\ fills = 0
    /\ submits = 0
    /\ failedBy = "none"
    /\ newCookie = "unread"
    /\ keyStatus = NoResponse
    /\ putStatus = NoResponse
    /\ keyGets = 0
    /\ puts = 0
    /\ stored = FALSE
    /\ literalSend = "none"
    /\ autoSend = "none"
    /\ kaAttempts = 0
    /\ kaFails = 0
    /\ url = NotRead
    /\ verified = NotRead
    /\ wrResult = "none"
    /\ wrSeen = NotRead
    /\ wrOauth = FALSE

RunIdle ==
    /\ credsOk = FALSE
    /\ haveSession = FALSE
    /\ tgOk = FALSE
    /\ secretOk = FALSE
    /\ RunFresh


RelayIdle ==
    /\ relayOk = FALSE
    /\ msgs = <<>>
    /\ confirmed = 1
    /\ wcPc = "idle"
    /\ offset = 0
    /\ wcResult = NoMatch
    /\ wcFrom = 0
    /\ staleIds = {}
    /\ rounds = 0
    /\ examined = {}
    /\ skipped = {}
    /\ instrAt = 0

PatternIdle ==
    /\ ptext = <<>>
    /\ pdone = FALSE
    /\ pres = NoMatch

InitPattern ==
    /\ ptext \in PatternInputs
    /\ pdone = FALSE
    /\ pres = NoMatch
    /\ RelayIdle
    /\ RunIdle

MatchText ==
    /\ ~pdone
    /\ pdone' = TRUE
    /\ pres' = AcceptText(ptext)
    /\ UNCHANGED <<ptext, relayVars, runVars>>

NextPattern == MatchText

SpecPattern == InitPattern /\ [][NextPattern]_vars

(***************************************************************************)
(* C3 (as stated): a text is accepted exactly when it is '/code', then at  *)
(* least one whitespace character, then 6 to 8 digits and nothing else.    *)
(* StrictForm says that of a text without running the matcher.             *)
(***************************************************************************)
StrictForm(t) ==
    \E k \in 1..Len(t), d \in 6..8 :
        /\ Len(t) = 5 + k + d
        /\ SubSeq(t, 1, 5) = <<"/", "c", "o", "d", "e">>
        /\ \A j \in 6..(5 + k) : t[j] \in Whitespace
        /\ \A j \in (6 + k)..Len(t) : t[j] \in Digits

\* the digits a text ends with
RECURSIVE TrailingDigits(_)
TrailingDigits(t) ==
    IF t # <<>> /\ t[Len(t)] \in Digits
    THEN Append(TrailingDigits(SubSeq(t, 1, Len(t) - 1)), t[Len(t)])
    ELSE <<>>

Slash6 == CodeToken \o <<" ">> \o DigitStr(6)
Slash8 == CodeToken \o <<" ">> \o DigitStr(8)
Slash5 == CodeToken \o <<" ">> \o DigitStr(5)
Slash9 == CodeToken \o <<" ">> \o DigitStr(9)
NoSlash6 == Tail(CodeToken) \o <<" ">> \o DigitStr(6)
Slash6Extra == Slash6 \o Extra

\* C3, the claim as stated: acceptance is decided by the text as received
C3_AcceptedExactlyStrictForm ==
    pdone => ((pres # NoMatch) <=> StrictForm(ptext))

\* C3, amended: the text is accepted exactly when, with its leading and
\* trailing whitespace removed, it is '/code', whitespace, 6 to 8 digits and
\* nothing else; the digits are what is returned; the six example texts of
\* the claim are accepted and rejected as it says.
C3_AcceptedExactlyStrictFormAfterStrip ==
    pdone =>
        /\ (pres # NoMatch) <=> StrictForm(Strip(ptext))
        /\ pres # NoMatch => pres = TrailingDigits(Strip(ptext))
        /\ ptext = Slash6 => pres = DigitStr(6)
        /\ ptext = Slash8 => pres = DigitStr(8)
        /\ ptext \in {Slash5, Slash9, NoSlash6, Slash6Extra} => pres = NoMatch

\* C3 witness: a text with surrounding whitespace was accepted
C3_Witness ==
    /\ pdone
    /\ ptext = <<" ">> \o Slash6 \o <<"\n">>
    /\ pres = DigitStr(6)

(***************************************************************************)
(* SpecRelay: one Telegram.wait_code call.  The relay (the Bot API's       *)
(* getUpdates) holds the updates not yet confirmed; a request with an      *)
(* offset confirms every update below it and returns the rest in order; a  *)
(* request without one returns all pending updates and confirms nothing.   *)
(***************************************************************************)
MaxPending == 2     \* updates pending when wait_code is called
MaxMsgs == 3        \* updates the relay holds over the whole call
MaxRounds == 3      \* polling rounds before the deadline passes

TG_CHAT_ID == "100"
NoChat == 0
ChatIds == {100, 200}

\* str(chat.get("id"))
StrOfChat(c) == CASE c = 100 -> "100" [] c = 200 -> "200" [] OTHER -> "None"

RelayTexts == {Slash6, Slash5}
MsgKinds == [chat : ChatIds \cup {NoChat}, text : RelayTexts]

SeqsUpTo(S, n) == UNION {[1..k -> S] : k \in 0..n}

Pending == {id \in 1..Len(msgs) : id >= confirmed}

\* a plausible slip: no sender check
FromOperatorAnyone(upd) == TRUE

\* wait_code line 104: str(chat.get("id")) != str(self.chat_id) -> continue
FromOperator(upd) == StrOfChat(upd.chat) = TG_CHAT_ID

\* the for-loop without line 101 (offset = upd["update_id"] + 1)
RECURSIVE ScanKeepsOffset(_, _, _)
ScanKeepsOffset(id, last, acc) ==
    IF id > last THEN acc
    ELSE LET upd == msgs[id]
             acc1 == [acc EXCEPT !.examined = @ \cup {id}]
         IN  IF ~FromOperator(upd)
             THEN ScanKeepsOffset(id + 1, last,
                                  [acc1 EXCEPT !.skipped = @ \cup {id}])
             ELSE LET m == AcceptText(upd.text)
                  IN  IF m # NoMatch
                      THEN [acc1 EXCEPT !.result = m, !.from = id]
                      ELSE ScanKeepsOffset(id + 1, last, acc1)

\* the for-loop of one polling round over updates id..last
RECURSIVE Scan(_, _, _)
Scan(id, last, acc) ==
    IF id > last THEN acc
    ELSE LET upd == msgs[id]
             acc1 == [acc EXCEPT !.offset = id + 1,
                                 !.examined = @ \cup {id}]
         IN  IF ~FromOperator(upd)
             THEN Scan(id + 1, last, [acc1 EXCEPT !.skipped = @ \cup {id}])
             ELSE LET m == AcceptText(upd.text)
                  IN  IF m # NoMatch
                      THEN [acc1 EXCEPT !.result = m, !.from = id]
                      ELSE Scan(id + 1, last, acc1)

\* flush_updates: the cursor it returns for each outcome of its request
FlushCursor(outcome, pending) ==
    IF outcome = "ok" /\ pending # {}
    THEN (CHOOSE id \in pending : \A o \in pending : o <= id) + 1
    ELSE 0

InitRelay ==
    /\ PatternIdle
    /\ RunIdle
    /\ relayOk \in BOOLEAN
    /\ msgs \in SeqsUpTo(MsgKinds, MaxPending)
    /\ confirmed = 1
    /\ wcPc = "start"
    /\ offset = 0
    /\ wcResult = NoMatch
    /\ wcFrom = 0
    /\ staleIds = {}
    /\ rounds = 0
    /\ examined = {}
    /\ skipped = {}
    /\ instrAt = Len(msgs)

\* someone posts to the bot while wait_code runs
Arrive ==
    /\ wcPc \in {"start", "loop"}
    /\ Len(msgs) < MaxMsgs
    /\ \E k \in MsgKinds : msgs' = Append(msgs, k)
    /\ UNCHANGED <<runVars, patternVars, instrAt, relayOk, confirmed, wcPc, offset, wcResult,
                   wcFrom, staleIds, rounds, examined, skipped>>

\* wait_code lines 80-81: unconfigured relay
WcNotConfigured ==
    /\ wcPc = "start"
    /\ ~relayOk
    /\ wcPc' = "done"
    /\ UNCHANGED <<runVars, patternVars, instrAt, relayOk, msgs, confirmed, offset, wcResult,
                   wcFrom, staleIds, rounds, examined, skipped>>

\* wait_code line 84: offset = self.flush_updates()
WcFlush ==
    /\ wcPc = "start"
    /\ relayOk
    /\ \E outcome \in {"ok", "not_ok", "raised"} :
           offset' = FlushCursor(outcome, Pending)
    /\ staleIds' = Pending
    /\ wcPc' = "loop"
    /\ UNCHANGED <<runVars, patternVars, instrAt, relayOk, msgs, confirmed, wcResult, wcFrom,
                   rounds, examined, skipped>>

\* wait_code lines 88, 117: the deadline has passed
WcDeadline ==
    /\ wcPc = "loop"
    /\ wcPc' = "done"
    /\ UNCHANGED <<runVars, patternVars, instrAt, relayOk, msgs, confirmed, offset, wcResult,
                   wcFrom, staleIds, rounds, examined, skipped>>

\* wait_code lines 89-98, 112-115: the request raised or answered not ok
WcPollFailed ==
    /\ wcPc = "loop"
    /\ rounds < MaxRounds
    /\ rounds' = rounds + 1
    /\ UNCHANGED <<runVars, patternVars, instrAt, relayOk, msgs, confirmed, wcPc, offset,
                   wcResult, wcFrom, staleIds, examined, skipped>>

\* wait_code lines 89-110: one answered polling round
WcPoll ==
    /\ wcPc = "loop"
    /\ rounds < MaxRounds
    /\ rounds' = rounds + 1
    /\ LET conf == IF offset > confirmed THEN offset ELSE confirmed
           r == Scan(conf, Len(msgs),
                     [offset |-> offset, result |-> NoMatch, from |-> 0,
                      examined |-> examined, skipped |-> skipped])
       IN  /\ confirmed' = conf
           /\ offset' = r.offset
           /\ wcResult' = r.result
           /\ wcFrom' = r.from
           /\ examined' = r.examined
           /\ skipped' = r.skipped
           /\ wcPc' = IF r.result # NoMatch THEN "done" ELSE "loop"
    /\ UNCHANGED <<runVars, patternVars, instrAt, relayOk, msgs, staleIds>>

NextRelay ==
    \/ Arrive
    \/ WcNotConfigured
    \/ WcFlush
    \/ WcDeadline
    \/ WcPollFailed
    \/ WcPoll

SpecRelay == InitRelay /\ [][NextRelay]_vars

\* C1: wait_code never returns a code read from an update that was already
\* pending when its flush_updates was called.
C1_NoStaleCode ==
    (wcPc = "done" /\ wcResult # NoMatch) => wcFrom \notin staleIds

\* C2: a returned code comes from an update of the configured chat, and an
\* update of any other chat is skipped, never returned, and polled past.
C2_OperatorOnly ==
    /\ wcResult # NoMatch =>
           /\ wcFrom \in 1..Len(msgs)
           /\ StrOfChat(msgs[wcFrom].chat) = TG_CHAT_ID
           /\ wcResult = AcceptText(msgs[wcFrom].text)
    /\ \A id \in examined :
           StrOfChat(msgs[id].chat) # TG_CHAT_ID =>
               /\ id \in skipped
               /\ id # wcFrom
               /\ offset > id

\* C2 witness: a well-formed /code from another chat was skipped and a later
\* update of the operator's chat was returned
C2_Witness ==
    /\ wcPc = "done"
    /\ wcResult # NoMatch
    /\ \E id \in skipped :
           /\ id < wcFrom
           /\ id \notin staleIds
           /\ msgs[id].chat = 200
           /\ AcceptText(msgs[id].text) # NoMatch

(***************************************************************************)
(* Spec: one AutoLogin.run.  page.url is the browser's; every read of it   *)
(* may return any URL.  A URL is modelled by the set of the substrings the *)
(* code tests for that occur in it ('signin' after lower-casing).          *)
(***************************************************************************)
DEVICE_VERIFY_WAIT == 30
TWO_FACTOR_WAIT == 120
REDIRECT_WAIT == 60
DeviceCheckEvery == 5
NumSelectors == 6
NumKeepalivePages == 2

U_ClawSignin == {"signin", "claw.cloud"}
U_ClawHome == {"claw.cloud"}
U_GhLogin == {"github.com/login"}
U_GhLoginReturn == {"github.com/login", "claw.cloud"}
U_GhSession == {"github.com/session"}
U_GhAuthorize == {"github.com/login", "github.com/login/oauth/authorize"}
U_GhVerifiedDevice == {"github.com/session", "verified-device"}
U_GhDeviceVerification == {"github.com/session", "device-verification"}
U_Gh2faMobile == {"github.com/session", "github.com/sessions/two-factor/",
                  "two-factor", "two-factor/mobile"}
U_Gh2faApp == {"github.com/session", "github.com/sessions/two-factor/",
               "two-factor"}
U_Gh2faReturn == U_Gh2faApp \cup {"github.com/login"}
U_Other == {}

URLs == {U_ClawSignin, U_ClawHome, U_GhLogin, U_GhLoginReturn, U_GhSession,
         U_GhAuthorize, U_GhVerifiedDevice, U_GhDeviceVerification,
         U_Gh2faMobile, U_Gh2faApp, U_Gh2faReturn, U_Other}

\* needle in url
Has(u, needle) == needle \in u

\* line 609: 'signin' not in page.url.lower()
IsSignin(u) == Has(u, "signin")

\* lines 257, 461: the device-verification path test
OnDevicePath(u) == Has(u, "verified-device") \/ Has(u, "device-verification")

\* lines 520, 661: on the target application and not a sign-in URL
OnTarget(u) == Has(u, "claw.cloud") /\ ~Has(u, "signin")

DeviceNeedles == {"verified-device", "device-verification"}

\* a plausible slip: no second look at the URL when the window ends
WdExpiryResultStrict(u) == FALSE

\* wait_device lines 267-268: at expiry only 'verified-device' is tested
WdExpiryResult(u) == ~Has(u, "verified-device")

\* the claim's plain login page: a login URL outside the two-factor path
PlainLogin(u) ==
    Has(u, "github.com/login") /\ ~Has(u, "github.com/sessions/two-factor/")

\* wait_two_factor_mobile lines 291-302: the two URL tests, in their order
TfmVerdict(u) ==
    IF ~Has(u, "github.com/sessions/two-factor/") THEN "resolved"
    ELSE IF Has(u, "github.com/login") THEN "rejected"
    ELSE "waiting"

\* Telegram.send: nothing when unconfigured; otherwise one POST whose
\* failure (an exception, or an unread error status) is swallowed
SendOutcomes == IF tgOk THEN {"delivered", "failed"} ELSE {"noop"}

KeyStatuses == {200, 404}
PutStatuses == {200, 201, 204, 500}

\* a plausible slip: any 2xx counts as stored
PutAcceptedAny2xx(status) == status \in 200..299

\* SecretUpdater.update line 162: r.status_code in [201, 204]
PutAccepted(status) == status \in {201, 204}

\* a plausible slip: no short-circuit for an authenticated session
AfterInitialNavAlwaysLogin(u) == "click_github"

\* run lines 609-620: where the run goes after the first navigation
AfterInitialNav(u) == IF ~IsSignin(u) THEN "sc_keepalive" ELSE "click_github"

\* run lines 641 and 646: the substrings of url the branch tests
RouteNeedles ==
    {"github.com/login", "github.com/session", "github.com/login/oauth/authorize"}

\* run lines 641-648: the ProviderAuth branch
AuthRoute(u) ==
    IF Has(u, "github.com/login") \/ Has(u, "github.com/session")
    THEN "login_github"
    ELSE IF Has(u, "github.com/login/oauth/authorize")
         THEN "oauth"
         ELSE "wait_redirect"

\* wait_redirect lines 521 and 523: the substrings of url an iteration tests
WrNeedles == {"claw.cloud", "signin", "github.com/login/oauth/authorize"}

\* wait_redirect line 521 without its 'signin' test
WrVerdictAnyClaw(u) ==
    IF Has(u, "claw.cloud") THEN "target"
    ELSE IF Has(u, "github.com/login/oauth/authorize") THEN "authorize"
    ELSE "other"

\* wait_redirect lines 519-524: the two URL tests of one iteration, in order
WrVerdict(u) ==
    IF OnTarget(u) THEN "target"
    ELSE IF Has(u, "github.com/login/oauth/authorize") THEN "authorize"
    ELSE "other"

\* oauth lines 506-513: where control is after oauth(page), given the URL it
\* reads and the outcome of its wait_for_load_state
OauthNext(u, outcome, next) ==
    IF Has(u, "github.com/login/oauth/authorize") /\ outcome = "raise"
    THEN "except"
    ELSE next

InitRun ==
    /\ PatternIdle
    /\ RelayIdle
    /\ credsOk \in BOOLEAN
    /\ haveSession \in BOOLEAN
    /\ tgOk \in BOOLEAN
    /\ secretOk \in BOOLEAN
    /\ RunFresh

\* run lines 573-580: missing credentials end the run before the browser
RunStart ==
    /\ pc = "start"
    /\ IF ~credsOk
       THEN /\ logs' = logs \cup {"error_no_credentials"}
            /\ notifyCount' = notifyCount + 1
            /\ reported' = "failure"
            /\ exitStatus' = 1
            /\ pc' = "done"
       ELSE /\ pc' = "launch"
            /\ UNCHANGED <<logs, notifyCount, reported, exitStatus>>
    /\ UNCHANGED <<patternVars, relayVars, credsOk, haveSession, tgOk,
                   secretOk, iter, ret, navUrl, browser, pendingExit,
                   uncaught, calls, wdResult, wdHow, wdExpSeen, tfmResult,
                   tfmSawLogin, codeResult, fills, submits, failedBy,
                   newCookie, keyStatus, putStatus, keyGets, puts, stored,
                   literalSend, autoSend, kaAttempts, kaFails, url, verified,
                   wrResult, wrSeen, wrOauth>>

\* run lines 582-583: sync_playwright() and chromium.launch, outside the try
Launch ==
    /\ pc = "launch"
    /\ \E outcome \in {"ok", "raise"} :
           IF outcome = "ok"
           THEN /\ browser' = "open"
                /\ pc' = "new_context"
                /\ UNCHANGED <<exitStatus, uncaught>>
           ELSE /\ uncaught' = TRUE
                /\ exitStatus' = 1
                /\ pc' = "done"
                /\ UNCHANGED browser
    /\ UNCHANGED <<patternVars, relayVars, credsOk, haveSession, tgOk,
                   secretOk, iter, ret, navUrl, pendingExit, notifyCount,
                   reported, logs, calls, wdResult, wdHow, wdExpSeen,
                   tfmResult, tfmSawLogin, codeResult, fills, submits,
                   failedBy, newCookie, keyStatus, putStatus, keyGets, puts,
                   stored, literalSend, autoSend, kaAttempts, kaFails, url,
                   verified, wrResult, wrSeen, wrOauth>>

\* run lines 584-588: new_context and new_page, outside the try
NewContext ==
    /\ pc = "new_context"
    /\ \E outcome \in {"ok", "raise"} :
           IF outcome = "ok"
           THEN /\ pc' = "preload"
                /\ UNCHANGED <<exitStatus, uncaught>>
           ELSE /\ uncaught' = TRUE
                /\ exitStatus' = 1
                /\ pc' = "done"
    /\ UNCHANGED <<patternVars, relayVars, credsOk, haveSession, tgOk,
                   secretOk, iter, ret, navUrl, browser, pendingExit,
                   notifyCount, reported, logs, calls, wdResult, wdHow,
                   wdExpSeen, tfmResult, tfmSawLogin, codeResult, fills,
                   submits, failedBy, newCookie, keyStatus, putStatus,
                   keyGets, puts, stored, literalSend, autoSend, kaAttempts,
                   kaFails, url, verified, wrResult, wrSeen, wrOauth>>

\* run lines 591-600: cookie preload, best effort
Preload ==
    /\ pc = "preload"
    /\ \E outcome \in {"ok", "raise"} :
           logs' = IF ~haveSession THEN logs
                   ELSE IF outcome = "ok" THEN logs \cup {"cookie_loaded"}
                   ELSE logs \cup {"warn_cookie_load"}
    /\ pc' = "goto"
    /\ UNCHANGED <<patternVars, relayVars, credsOk, haveSession, tgOk,
                   secretOk, iter, ret, navUrl, browser, pendingExit,
                   exitStatus, uncaught, notifyCount, reported, calls,
                   wdResult, wdHow, wdExpSeen, tfmResult, tfmSawLogin,
                   codeResult, fills, submits, failedBy, newCookie,
                   keyStatus, putStatus, keyGets, puts, stored, literalSend,
                   autoSend, kaAttempts, kaFails, url, verified, wrResult,
                   wrSeen, wrOauth>>

\* run lines 603-607: open the sign-in page
Goto ==
    /\ pc = "goto"
    /\ \E outcome \in {"ok", "raise"} :
           pc' = IF outcome = "ok" THEN "check_signed_in" ELSE "except"
    /\ UNCHANGED <<patternVars, relayVars, credsOk, haveSession, tgOk,
                   secretOk, iter, ret, navUrl, browser, pendingExit,
                   exitStatus, uncaught, notifyCount, reported, logs, calls,
                   wdResult, wdHow, wdExpSeen, tfmResult, tfmSawLogin,
                   codeResult, fills, submits, failedBy, newCookie,
                   keyStatus, putStatus, keyGets, puts, stored, literalSend,
                   autoSend, kaAttempts, kaFails, url, verified, wrResult,
                   wrSeen, wrOauth>>

\* run lines 609-610, 620: already signed in?
CheckSignedIn ==
    /\ pc = "check_signed_in"
    /\ \E u \in URLs :
           /\ navUrl' = u
           /\ pc' = AfterInitialNav(u)
           /\ logs' = IF AfterInitialNav(u) = "sc_keepalive"
                      THEN logs \cup {"logged_in"} ELSE logs
    /\ UNCHANGED <<patternVars, relayVars, credsOk, haveSession, tgOk,
                   secretOk, iter, ret, browser, pendingExit, exitStatus,
                   uncaught, notifyCount, reported, calls, wdResult, wdHow,
                   wdExpSeen, tfmResult, tfmSawLogin, codeResult, fills,
                   submits, failedBy, newCookie, keyStatus, putStatus,
                   keyGets, puts, stored, literalSend, autoSend, kaAttempts,
                   kaFails, url, verified, wrResult, wrSeen, wrOauth>>

\* run line 611: self.keepalive(page) on the short-circuit path
ScKeepalive ==
    /\ pc = "sc_keepalive"
    /\ calls' = Append(calls, "keepalive")
    /\ iter' = 0
    /\ ret' = "sc_extract"
    /\ pc' = "keepalive"
    /\ UNCHANGED <<patternVars, relayVars, credsOk, haveSession, tgOk,
                   secretOk, navUrl, browser, pendingExit, exitStatus,
                   uncaught, notifyCount, reported, logs, wdResult, wdHow,
                   wdExpSeen, tfmResult, tfmSawLogin, codeResult, fills,
                   submits, failedBy, newCookie, keyStatus, putStatus,
                   keyGets, puts, stored, literalSend, autoSend, kaAttempts,
                   kaFails, url, verified, wrResult, wrSeen, wrOauth>>

\* keepalive lines 534-541: one page; a failed visit is passed over
KeepaliveVisit ==
    /\ pc = "keepalive"
    /\ iter < NumKeepalivePages
    /\ \E outcome \in {"ok", "raise"} :
           /\ kaFails' = IF outcome = "raise" THEN kaFails + 1 ELSE kaFails
           /\ logs' = IF outcome = "ok" THEN logs \cup {"visited"} ELSE logs
    /\ kaAttempts' = kaAttempts + 1
    /\ iter' = iter + 1
    /\ UNCHANGED <<patternVars, relayVars, credsOk, haveSession, tgOk,
                   secretOk, pc, ret, navUrl, browser, pendingExit,
                   exitStatus, uncaught, notifyCount, reported, calls,
                   wdResult, wdHow, wdExpSeen, tfmResult, tfmSawLogin,
                   codeResult, fills, submits, failedBy, newCookie,
                   keyStatus, putStatus, keyGets, puts, stored, literalSend,
                   autoSend, url, verified, wrResult, wrSeen, wrOauth>>

\* keepalive line 542: final screenshot, return
KeepaliveEnd ==
    /\ pc = "keepalive"
    /\ iter = NumKeepalivePages
    /\ iter' = 0
    /\ pc' = ret
    /\ UNCHANGED <<patternVars, relayVars, credsOk, haveSession, tgOk,
                   secretOk, ret, navUrl, browser, pendingExit, exitStatus,
                   uncaught, notifyCount, reported, logs, calls, wdResult,
                   wdHow, wdExpSeen, tfmResult, tfmSawLogin, codeResult,
                   fills, submits, failedBy, newCookie, keyStatus, putStatus,
                   keyGets, puts, stored, literalSend, autoSend, kaAttempts,
                   kaFails, url, verified, wrResult, wrSeen, wrOauth>>

\* run lines 613-615: new = get_session(context); no else branch here
ScExtract ==
    /\ pc = "sc_extract"
    /\ calls' = Append(calls, "get_session")
    /\ \E c \in {"value", "none"} :
           /\ newCookie' = c
           /\ pc' = IF c = "value" THEN "save_cookie" ELSE "notify_ok"
    /\ UNCHANGED <<patternVars, relayVars, credsOk, haveSession, tgOk,
                   secretOk, iter, ret, navUrl, browser, pendingExit,
                   exitStatus, uncaught, notifyCount, reported, logs,
                   wdResult, wdHow, wdExpSeen, tfmResult, tfmSawLogin,
                   codeResult, fills, submits, failedBy, keyStatus,
                   putStatus, keyGets, puts, stored, literalSend, autoSend,
                   kaAttempts, kaFails, url, verified, wrResult, wrSeen,
                   wrOauth>>

\* run lines 669-674: new = get_session(context); a warning when absent
Extract ==
    /\ pc = "extract"
    /\ calls' = Append(calls, "get_session")
    /\ \E c \in {"value", "none"} :
           /\ newCookie' = c
           /\ pc' = IF c = "value" THEN "save_cookie" ELSE "notify_ok"
           /\ logs' = IF c = "value" THEN logs ELSE logs \cup {"warn_no_cookie"}
    /\ UNCHANGED <<patternVars, relayVars, credsOk, haveSession, tgOk,
                   secretOk, iter, ret, navUrl, browser, pendingExit,
                   exitStatus, uncaught, notifyCount, reported, wdResult,
                   wdHow, wdExpSeen, tfmResult, tfmSawLogin, codeResult,
                   fills, submits, failedBy, keyStatus, putStatus, keyGets,
                   puts, stored, literalSend, autoSend, kaAttempts, kaFails,
                   url, verified, wrResult, wrSeen, wrOauth>>

\* save_cookie lines 219-236 with SecretUpdater.update lines 132-165
SaveCookie ==
    /\ pc = "save_cookie"
    /\ calls' = Append(calls, "save_cookie")
    /\ \E key \in KeyStatuses \cup {NoResponse},
          put \in PutStatuses \cup {NoResponse},
          sent \in SendOutcomes :
           LET keyAsked == secretOk
               putAsked == secretOk /\ key = 200
               updated == putAsked /\ PutAccepted(put)
           IN  /\ keyGets' = IF keyAsked THEN keyGets + 1 ELSE keyGets
               /\ keyStatus' = IF keyAsked THEN key ELSE NoResponse
               /\ puts' = IF putAsked THEN puts + 1 ELSE puts
               /\ putStatus' = IF putAsked THEN put ELSE NoResponse
               /\ stored' = updated
               /\ IF updated
                  THEN /\ logs' = logs \cup {"new_cookie", "auto_updated"}
                       /\ autoSend' = sent
                       /\ UNCHANGED literalSend
                  ELSE /\ logs' = logs \cup {"new_cookie", "sent_via_tg"}
                       /\ literalSend' = sent
                       /\ UNCHANGED autoSend
    /\ pc' = "notify_ok"
    /\ UNCHANGED <<patternVars, relayVars, credsOk, haveSession, tgOk,
                   secretOk, iter, ret, navUrl, browser, pendingExit,
                   exitStatus, uncaught, notifyCount, reported, wdResult,
                   wdHow, wdExpSeen, tfmResult, tfmSawLogin, codeResult,
                   fills, submits, failedBy, newCookie, kaAttempts, kaFails,
                   url, verified, wrResult, wrSeen, wrOauth>>

\* run lines 616-618, 676-679: notify(True), then leave the try block
NotifyOk ==
    /\ pc = "notify_ok"
    /\ calls' = Append(calls, "notify")
    /\ notifyCount' = notifyCount + 1
    /\ reported' = "success"
    /\ pendingExit' = 0
    /\ pc' = "finally"
    /\ UNCHANGED <<patternVars, relayVars, credsOk, haveSession, tgOk,
                   secretOk, iter, ret, navUrl, browser, exitStatus,
                   uncaught, logs, wdResult, wdHow, wdExpSeen, tfmResult,
                   tfmSawLogin, codeResult, fills, submits, failedBy,
                   newCookie, keyStatus, putStatus, keyGets, puts, stored,
                   literalSend, autoSend, kaAttempts, kaFails, url, verified,
                   wrResult, wrSeen, wrOauth>>

\* run lines 620-633: click the GitHub entry, wait for the page
ClickGithub ==
    /\ pc = "click_github"
    /\ \E outcome \in {"clicked", "not_found", "raise"} :
           IF outcome = "not_found"
           THEN /\ logs' = logs \cup {"error_no_button"}
                /\ calls' = Append(calls, "notify")
                /\ notifyCount' = notifyCount + 1
                /\ reported' = "failure"
                /\ pendingExit' = 1
                /\ pc' = "finally"
           ELSE /\ pc' = IF outcome = "clicked" THEN "read_url" ELSE "except"
                /\ UNCHANGED <<logs, calls, notifyCount, reported, pendingExit>>
    /\ UNCHANGED <<patternVars, relayVars, credsOk, haveSession, tgOk,
                   secretOk, iter, ret, navUrl, browser, exitStatus,
                   uncaught, wdResult, wdHow, wdExpSeen, tfmResult,
                   tfmSawLogin, codeResult, fills, submits, failedBy,
                   newCookie, keyStatus, putStatus, keyGets, puts, stored,
                   literalSend, autoSend, kaAttempts, kaFails, url, verified,
                   wrResult, wrSeen, wrOauth>>

\* run lines 635-636: url = page.url, read once after the hand-off click
ReadUrl ==
    /\ pc = "read_url"
    /\ url' \in {u \cap RouteNeedles : u \in URLs}
    /\ pc' = "auth_branch"
    /\ UNCHANGED <<patternVars, relayVars, credsOk, haveSession, tgOk,
                   secretOk, iter, ret, navUrl, browser, pendingExit,
                   exitStatus, uncaught, notifyCount, reported, logs, calls,
                   wdResult, wdHow, wdExpSeen, tfmResult, tfmSawLogin,
                   codeResult, fills, submits, failedBy, newCookie,
                   keyStatus, putStatus, keyGets, puts, stored, literalSend,
                   autoSend, kaAttempts, kaFails, verified, wrResult, wrSeen,
                   wrOauth>>

\* run lines 641-648: branch on url; the local is not read again afterwards
AuthBranch ==
    /\ pc = "auth_branch"
    /\ IF AuthRoute(url) = "login_github"
       THEN /\ calls' = Append(calls, "login_github")
            /\ pc' = "lg_fill"
            /\ UNCHANGED logs
       ELSE IF AuthRoute(url) = "oauth"
            THEN /\ logs' = logs \cup {"cookie_valid"}
                 /\ calls' = Append(calls, "oauth")
                 /\ \E u2 \in URLs, outcome \in {"ok", "raise"} :
                        pc' = OauthNext(u2, outcome, "wait_redirect")
            ELSE /\ pc' = "wait_redirect"
                 /\ UNCHANGED <<logs, calls>>
    /\ url' = NotRead
    /\ UNCHANGED <<patternVars, relayVars, credsOk, haveSession, tgOk,
                   secretOk, iter, ret, navUrl, browser, pendingExit,
                   exitStatus, uncaught, notifyCount, reported, wdResult,
                   wdHow, wdExpSeen, tfmResult, tfmSawLogin, codeResult,
                   fills, submits, failedBy, newCookie, keyStatus, putStatus,
                   keyGets, puts, stored, literalSend, autoSend, kaAttempts,
                   kaFails, verified, wrResult, wrSeen, wrOauth>>

\* run lines 681-687: log, screenshot, notify(False, str(e)), sys.exit(1)
Except ==
    /\ pc = "except"
    /\ logs' = logs \cup {"error_exception"}
    /\ calls' = Append(calls, "notify")
    /\ notifyCount' = notifyCount + 1
    /\ reported' = "failure"
    /\ pendingExit' = 1
    /\ pc' = "finally"
    /\ UNCHANGED <<patternVars, relayVars, credsOk, haveSession, tgOk,
                   secretOk, iter, ret, navUrl, browser, exitStatus,
                   uncaught, wdResult, wdHow, wdExpSeen, tfmResult,
                   tfmSawLogin, codeResult, fills, submits, failedBy,
                   newCookie, keyStatus, putStatus, keyGets, puts, stored,
                   literalSend, autoSend, kaAttempts, kaFails, url, verified,
                   wrResult, wrSeen, wrOauth>>

\* run lines 688-689: browser.close(), then the process ends
Finally ==
    /\ pc = "finally"
    /\ \E outcome \in {"ok", "raise"} :
           IF outcome = "ok"
           THEN /\ browser' = "closed"
                /\ exitStatus' = pendingExit
                /\ UNCHANGED uncaught
           ELSE /\ browser' = "close_failed"
                /\ uncaught' = TRUE
                /\ exitStatus' = 1
    /\ pc' = "done"
    /\ UNCHANGED <<patternVars, relayVars, credsOk, haveSession, tgOk,
                   secretOk, iter, ret, navUrl, pendingExit, notifyCount,
                   reported, logs, calls, wdResult, wdHow, wdExpSeen,
                   tfmResult, tfmSawLogin, codeResult, fills, submits,
                   failedBy, newCookie, keyStatus, putStatus, keyGets, puts,
                   stored, literalSend, autoSend, kaAttempts, kaFails, url,
                   verified, wrResult, wrSeen, wrOauth>>

\* login_github lines 435-444: fill username and password
LgFill ==
    /\ pc = "lg_fill"
    /\ \E outcome \in {"ok", "raise"} :
           IF outcome = "ok"
           THEN /\ pc' = "lg_submit"
                /\ UNCHANGED <<logs, failedBy>>
           ELSE /\ logs' = logs \cup {"error_fill"}
                /\ failedBy' = "fill"
                /\ pc' = "login_failed"
    /\ UNCHANGED <<patternVars, relayVars, credsOk, haveSession, tgOk,
                   secretOk, iter, ret, navUrl, browser, pendingExit,
                   exitStatus, uncaught, notifyCount, reported, calls,
                   wdResult, wdHow, wdExpSeen, tfmResult, tfmSawLogin,
                   codeResult, fills, submits, newCookie, keyStatus,
                   putStatus, keyGets, puts, stored, literalSend, autoSend,
                   kaAttempts, kaFails, url, verified, wrResult, wrSeen,
                   wrOauth>>

\* login_github lines 446-455: submit, wait for the page
LgSubmit ==
    /\ pc = "lg_submit"
    /\ \E outcome \in {"ok", "raise"} :
           pc' = IF outcome = "ok" THEN "lg_url" ELSE "except"
    /\ UNCHANGED <<patternVars, relayVars, credsOk, haveSession, tgOk,
                   secretOk, iter, ret, navUrl, browser, pendingExit,
                   exitStatus, uncaught, notifyCount, reported, logs, calls,
                   wdResult, wdHow, wdExpSeen, tfmResult, tfmSawLogin,
                   codeResult, fills, submits, failedBy, newCookie,
                   keyStatus, putStatus, keyGets, puts, stored, literalSend,
                   autoSend, kaAttempts, kaFails, url, verified, wrResult,
                   wrSeen, wrOauth>>

\* login_github lines 457-462: device verification?
LgUrl ==
    /\ pc = "lg_url"
    /\ \E u \in URLs :
           /\ IF OnDevicePath(u)
              THEN /\ calls' = Append(calls, "wait_device")
                   /\ logs' = logs \cup {"warn_device"}
                   /\ iter' = 0
                   /\ pc' = "wd_loop"
              ELSE /\ pc' = "lg_2fa"
                   /\ UNCHANGED <<calls, logs, iter>>
    /\ UNCHANGED <<patternVars, relayVars, credsOk, haveSession, tgOk,
                   secretOk, ret, navUrl, browser, pendingExit, exitStatus,
                   uncaught, notifyCount, reported, wdResult, wdHow,
                   wdExpSeen, tfmResult, tfmSawLogin, codeResult, fills,
                   submits, failedBy, newCookie, keyStatus, putStatus,
                   keyGets, puts, stored, literalSend, autoSend, kaAttempts,
                   kaFails, url, verified, wrResult, wrSeen, wrOauth>>

\* wait_device lines 252-265: one second of the wait; every fifth reads the URL
WdIter ==
    /\ pc = "wd_loop"
    /\ iter < DEVICE_VERIFY_WAIT
    /\ IF iter % DeviceCheckEvery = 0
       THEN \E u \in URLs :
                /\ IF ~OnDevicePath(u)
                   THEN /\ wdResult' = "true"
                        /\ wdHow' = "check"
                        /\ logs' = logs \cup {"device_passed"}
                        /\ pc' = "lg_after_device"
                        /\ iter' = 0
                   ELSE /\ iter' = iter + 1
                        /\ UNCHANGED <<wdResult, wdHow, logs, pc>>
       ELSE /\ iter' = iter + 1
            /\ UNCHANGED <<wdResult, wdHow, logs, pc>>
    /\ UNCHANGED <<patternVars, relayVars, credsOk, haveSession, tgOk,
                   secretOk, ret, navUrl, browser, pendingExit, exitStatus,
                   uncaught, notifyCount, reported, calls, wdExpSeen,
                   tfmResult, tfmSawLogin, codeResult, fills, submits,
                   failedBy, newCookie, keyStatus, putStatus, keyGets, puts,
                   stored, literalSend, autoSend, kaAttempts, kaFails, url,
                   verified, wrResult, wrSeen, wrOauth>>

\* wait_device lines 267-272: the window is over
WdExpiry ==
    /\ pc = "wd_loop"
    /\ iter = DEVICE_VERIFY_WAIT
    /\ iter' = 0
    /\ \E u \in URLs :
           /\ wdExpSeen' = u \cap DeviceNeedles
           /\ wdHow' = "expiry"
           /\ IF WdExpiryResult(u)
              THEN /\ wdResult' = "true"
                   /\ pc' = "lg_after_device"
                   /\ UNCHANGED <<logs, failedBy>>
              ELSE /\ wdResult' = "false"
                   /\ logs' = logs \cup {"error_device_timeout"}
                   /\ failedBy' = "device"
                   /\ pc' = "login_failed"
    /\ UNCHANGED <<patternVars, relayVars, credsOk, haveSession, tgOk,
                   secretOk, ret, navUrl, browser, pendingExit, exitStatus,
                   uncaught, notifyCount, reported, calls, tfmResult,
                   tfmSawLogin, codeResult, fills, submits, newCookie,
                   keyStatus, putStatus, keyGets, puts, stored, literalSend,
                   autoSend, kaAttempts, kaFails, url, verified, wrResult,
                   wrSeen, wrOauth>>

\* login_github lines 464-466: let the page settle after the device check
LgAfterDevice ==
    /\ pc = "lg_after_device"
    /\ \E outcome \in {"ok", "raise"} :
           pc' = IF outcome = "ok" THEN "lg_2fa" ELSE "except"
    /\ UNCHANGED <<patternVars, relayVars, credsOk, haveSession, tgOk,
                   secretOk, iter, ret, navUrl, browser, pendingExit,
                   exitStatus, uncaught, notifyCount, reported, logs, calls,
                   wdResult, wdHow, wdExpSeen, tfmResult, tfmSawLogin,
                   codeResult, fills, submits, failedBy, newCookie,
                   keyStatus, putStatus, keyGets, puts, stored, literalSend,
                   autoSend, kaAttempts, kaFails, url, verified, wrResult,
                   wrSeen, wrOauth>>

\* login_github line 469: second factor?
Lg2fa ==
    /\ pc = "lg_2fa"
    /\ \E u \in URLs :
           /\ IF Has(u, "two-factor")
              THEN /\ logs' = logs \cup {"warn_2fa"}
                   /\ pc' = "lg_2fa_kind"
              ELSE /\ pc' = "lg_flash"
                   /\ UNCHANGED logs
    /\ UNCHANGED <<patternVars, relayVars, credsOk, haveSession, tgOk,
                   secretOk, iter, ret, navUrl, browser, pendingExit,
                   exitStatus, uncaught, notifyCount, reported, calls,
                   wdResult, wdHow, wdExpSeen, tfmResult, tfmSawLogin,
                   codeResult, fills, submits, failedBy, newCookie,
                   keyStatus, putStatus, keyGets, puts, stored, literalSend,
                   autoSend, kaAttempts, kaFails, url, verified, wrResult,
                   wrSeen, wrOauth>>

\* login_github lines 474-486: which second-factor resolver
Lg2faKind ==
    /\ pc = "lg_2fa_kind"
    /\ \E u \in URLs :
           /\ IF Has(u, "two-factor/mobile")
              THEN /\ calls' = Append(calls, "wait_two_factor_mobile")
                   /\ iter' = 0
                   /\ pc' = "tfm_loop"
              ELSE /\ calls' = Append(calls, "handle_2fa_code_input")
                   /\ pc' = "h2_wait"
                   /\ UNCHANGED iter
    /\ UNCHANGED <<patternVars, relayVars, credsOk, haveSession, tgOk,
                   secretOk, ret, navUrl, browser, pendingExit, exitStatus,
                   uncaught, notifyCount, reported, logs, wdResult, wdHow,
                   wdExpSeen, tfmResult, tfmSawLogin, codeResult, fills,
                   submits, failedBy, newCookie, keyStatus, putStatus,
                   keyGets, puts, stored, literalSend, autoSend, kaAttempts,
                   kaFails, url, verified, wrResult, wrSeen, wrOauth>>

\* wait_two_factor_mobile lines 288-317: one second of the wait
TfmIter ==
    /\ pc = "tfm_loop"
    /\ iter < TWO_FACTOR_WAIT
    /\ \E seen \in {<<TfmVerdict(u), PlainLogin(u)>> : u \in URLs} :
           /\ tfmSawLogin' = (tfmSawLogin \/ seen[2])
           /\ IF seen[1] = "resolved"
              THEN /\ tfmResult' = "true"
                   /\ logs' = logs \cup {"2fa_passed"}
                   /\ pc' = "lg_after_2fa"
                   /\ iter' = 0
                   /\ UNCHANGED failedBy
              ELSE IF seen[1] = "rejected"
                   THEN /\ tfmResult' = "false"
                        /\ logs' = logs \cup {"error_2fa_back_to_login"}
                        /\ failedBy' = "mobile_rejected"
                        /\ pc' = "login_failed"
                        /\ iter' = 0
                   ELSE /\ iter' = iter + 1
                        /\ UNCHANGED <<tfmResult, logs, failedBy, pc>>
    /\ UNCHANGED <<patternVars, relayVars, credsOk, haveSession, tgOk,
                   secretOk, ret, navUrl, browser, pendingExit, exitStatus,
                   uncaught, notifyCount, reported, calls, wdResult, wdHow,
                   wdExpSeen, codeResult, fills, submits, newCookie,
                   keyStatus, putStatus, keyGets, puts, stored, literalSend,
                   autoSend, kaAttempts, kaFails, url, verified, wrResult,
                   wrSeen, wrOauth>>

\* wait_two_factor_mobile lines 319-321: the window is over
TfmTimeout ==
    /\ pc = "tfm_loop"
    /\ iter = TWO_FACTOR_WAIT
    /\ iter' = 0
    /\ tfmResult' = "false"
    /\ logs' = logs \cup {"error_2fa_timeout"}
    /\ failedBy' = "mobile_timeout"
    /\ pc' = "login_failed"
    /\ UNCHANGED <<patternVars, relayVars, credsOk, haveSession, tgOk,
                   secretOk, ret, navUrl, browser, pendingExit, exitStatus,
                   uncaught, notifyCount, reported, calls, wdResult, wdHow,
                   wdExpSeen, tfmSawLogin, codeResult, fills, submits,
                   newCookie, keyStatus, putStatus, keyGets, puts, stored,
                   literalSend, autoSend, kaAttempts, kaFails, url, verified,
                   wrResult, wrSeen, wrOauth>>

\* handle_2fa_code_input lines 325-371: switch to code entry, send the
\* instruction, wait_code; None is a timeout
H2Wait ==
    /\ pc = "h2_wait"
    /\ \E got \in (IF tgOk THEN {"code", "none"} ELSE {"none"}) :
           IF got = "none"
           THEN /\ codeResult' = "false"
                /\ logs' = logs \cup {"error_code_timeout"}
                /\ failedBy' = "code_timeout"
                /\ pc' = "login_failed"
                /\ UNCHANGED iter
           ELSE /\ logs' = logs \cup {"code_received"}
                /\ iter' = 0
                /\ pc' = "h2_sel"
                /\ UNCHANGED <<codeResult, failedBy>>
    /\ UNCHANGED <<patternVars, relayVars, credsOk, haveSession, tgOk,
                   secretOk, ret, navUrl, browser, pendingExit, exitStatus,
                   uncaught, notifyCount, reported, calls, wdResult, wdHow,
                   wdExpSeen, tfmResult, tfmSawLogin, fills, submits,
                   newCookie, keyStatus, putStatus, keyGets, puts, stored,
                   literalSend, autoSend, kaAttempts, kaFails, url, verified,
                   wrResult, wrSeen, wrOauth>>

\* handle_2fa_code_input lines 383-427: one candidate field; any exception
\* inside, also after the submission, moves on to the next candidate
H2Selector ==
    /\ pc = "h2_sel"
    /\ iter < NumSelectors
    /\ \E outcome \in {"not_visible", "fill_raised", "submit_raised",
                       "settle_raised", "settled"},
          left \in {~Has(u, "github.com/sessions/two-factor/") : u \in URLs} :
           /\ fills' = IF outcome \in {"submit_raised", "settle_raised", "settled"}
                       THEN fills + 1 ELSE fills
           /\ submits' = IF outcome \in {"settle_raised", "settled"}
                         THEN submits + 1 ELSE submits
           /\ IF outcome = "settled"
              THEN /\ IF left
                      THEN /\ codeResult' = "true"
                           /\ logs' = logs \cup {"code_passed"}
                           /\ pc' = "lg_after_2fa"
                           /\ UNCHANGED failedBy
                      ELSE /\ codeResult' = "false"
                           /\ logs' = logs \cup {"error_code_wrong"}
                           /\ failedBy' = "code_rejected"
                           /\ pc' = "login_failed"
                   /\ iter' = 0
              ELSE /\ iter' = iter + 1
                   /\ UNCHANGED <<codeResult, logs, failedBy, pc>>
    /\ UNCHANGED <<patternVars, relayVars, credsOk, haveSession, tgOk,
                   secretOk, ret, navUrl, browser, pendingExit, exitStatus,
                   uncaught, notifyCount, reported, calls, wdResult, wdHow,
                   wdExpSeen, tfmResult, tfmSawLogin, newCookie, keyStatus,
                   putStatus, keyGets, puts, stored, literalSend, autoSend,
                   kaAttempts, kaFails, url, verified, wrResult, wrSeen,
                   wrOauth>>

\* handle_2fa_code_input lines 429-431: no candidate field worked
H2NotFound ==
    /\ pc = "h2_sel"
    /\ iter = NumSelectors
    /\ iter' = 0
    /\ codeResult' = "false"
    /\ logs' = logs \cup {"error_no_code_field"}
    /\ failedBy' = "code_no_field"
    /\ pc' = "login_failed"
    /\ UNCHANGED <<patternVars, relayVars, credsOk, haveSession, tgOk,
                   secretOk, ret, navUrl, browser, pendingExit, exitStatus,
                   uncaught, notifyCount, reported, calls, wdResult, wdHow,
                   wdExpSeen, tfmResult, tfmSawLogin, fills, submits,
                   newCookie, keyStatus, putStatus, keyGets, puts, stored,
                   literalSend, autoSend, kaAttempts, kaFails, url, verified,
                   wrResult, wrSeen, wrOauth>>

\* lines 477-493 as a loop: back to the test at line 469 after a resolver
LgAfter2faRecheck ==
    /\ pc = "lg_after_2fa"
    /\ pc' = "lg_2fa"
    /\ UNCHANGED <<patternVars, relayVars, credsOk, haveSession, tgOk,
                   secretOk, iter, ret, navUrl, browser, pendingExit,
                   exitStatus, uncaught, notifyCount, reported, logs, calls,
                   wdResult, wdHow, wdExpSeen, tfmResult, tfmSawLogin,
                   codeResult, fills, submits, failedBy, newCookie,
                   keyStatus, putStatus, keyGets, puts, stored, literalSend,
                   autoSend, kaAttempts, kaFails, url, verified, wrResult,
                   wrSeen, wrOauth>>

\* login_github lines 477-482, 488-493: settle, exceptions passed over
LgAfter2fa ==
    /\ pc = "lg_after_2fa"
    /\ pc' = "lg_flash"
    /\ UNCHANGED <<patternVars, relayVars, credsOk, haveSession, tgOk,
                   secretOk, iter, ret, navUrl, browser, pendingExit,
                   exitStatus, uncaught, notifyCount, reported, logs, calls,
                   wdResult, wdHow, wdExpSeen, tfmResult, tfmSawLogin,
                   codeResult, fills, submits, failedBy, newCookie,
                   keyStatus, putStatus, keyGets, puts, stored, literalSend,
                   autoSend, kaAttempts, kaFails, url, verified, wrResult,
                   wrSeen, wrOauth>>

\* login_github lines 495-504: an error banner is fatal
LgFlash ==
    /\ pc = "lg_flash"
    /\ \E banner \in BOOLEAN :
           IF banner
           THEN /\ logs' = logs \cup {"error_banner"}
                /\ failedBy' = "banner"
                /\ pc' = "login_failed"
           ELSE /\ pc' = "wait_redirect"
                /\ UNCHANGED <<logs, failedBy>>
    /\ UNCHANGED <<patternVars, relayVars, credsOk, haveSession, tgOk,
                   secretOk, iter, ret, navUrl, browser, pendingExit,
                   exitStatus, uncaught, notifyCount, reported, calls,
                   wdResult, wdHow, wdExpSeen, tfmResult, tfmSawLogin,
                   codeResult, fills, submits, newCookie, keyStatus,
                   putStatus, keyGets, puts, stored, literalSend, autoSend,
                   kaAttempts, kaFails, url, verified, wrResult, wrSeen,
                   wrOauth>>

\* run line 642 without the test of login_github's result
LoginFailedIgnored ==
    /\ pc = "login_failed"
    /\ pc' = "wait_redirect"
    /\ UNCHANGED <<patternVars, relayVars, credsOk, haveSession, tgOk,
                   secretOk, iter, ret, navUrl, browser, pendingExit,
                   exitStatus, uncaught, notifyCount, reported, logs, calls,
                   wdResult, wdHow, wdExpSeen, tfmResult, tfmSawLogin,
                   codeResult, fills, submits, failedBy, newCookie,
                   keyStatus, putStatus, keyGets, puts, stored, literalSend,
                   autoSend, kaAttempts, kaFails, url, verified, wrResult,
                   wrSeen, wrOauth>>

\* run lines 642-645: login_github returned False
LoginFailed ==
    /\ pc = "login_failed"
    /\ calls' = Append(calls, "notify")
    /\ notifyCount' = notifyCount + 1
    /\ reported' = "failure"
    /\ pendingExit' = 1
    /\ pc' = "finally"
    /\ UNCHANGED <<patternVars, relayVars, credsOk, haveSession, tgOk,
                   secretOk, iter, ret, navUrl, browser, exitStatus,
                   uncaught, logs, wdResult, wdHow, wdExpSeen, tfmResult,
                   tfmSawLogin, codeResult, fills, submits, failedBy,
                   newCookie, keyStatus, putStatus, keyGets, puts, stored,
                   literalSend, autoSend, kaAttempts, kaFails, url, verified,
                   wrResult, wrSeen, wrOauth>>

\* run lines 650-652: self.wait_redirect(page)
WaitRedirect ==
    /\ pc = "wait_redirect"
    /\ calls' = Append(calls, "wait_redirect")
    /\ iter' = 0
    /\ pc' = "wr_loop"
    /\ UNCHANGED <<patternVars, relayVars, credsOk, haveSession, tgOk,
                   secretOk, ret, navUrl, browser, pendingExit, exitStatus,
                   uncaught, notifyCount, reported, logs, wdResult, wdHow,
                   wdExpSeen, tfmResult, tfmSawLogin, codeResult, fills,
                   submits, failedBy, newCookie, keyStatus, putStatus,
                   keyGets, puts, stored, literalSend, autoSend, kaAttempts,
                   kaFails, url, verified, wrResult, wrSeen, wrOauth>>

\* wait_redirect lines 518-527: one iteration, with oauth when on authorize
WrIter ==
    /\ pc = "wr_loop"
    /\ iter < REDIRECT_WAIT
    /\ \E seen \in {u \cap WrNeedles : u \in URLs} :
           /\ wrSeen' = seen
           /\ wrOauth' = (WrVerdict(seen) = "authorize")
           /\ IF WrVerdict(seen) = "target"
              THEN /\ logs' = logs \cup {"redirect_ok"}
                   /\ wrResult' = "true"
                   /\ pc' = "post_verify"
                   /\ iter' = 0
              ELSE IF WrVerdict(seen) = "authorize"
                   THEN \E next \in {OauthNext(u2, outcome, "wr_loop") :
                                        u2 \in URLs, outcome \in {"ok", "raise"}} :
                            /\ pc' = next
                            /\ iter' = IF next = "wr_loop" THEN iter + 1 ELSE 0
                            /\ UNCHANGED <<logs, wrResult>>
                   ELSE /\ iter' = iter + 1
                        /\ UNCHANGED <<logs, pc, wrResult>>
    /\ UNCHANGED <<patternVars, relayVars, credsOk, haveSession, tgOk,
                   secretOk, ret, navUrl, browser, pendingExit, exitStatus,
                   uncaught, notifyCount, reported, calls, wdResult, wdHow,
                   wdExpSeen, tfmResult, tfmSawLogin, codeResult, fills,
                   submits, failedBy, newCookie, keyStatus, putStatus,
                   keyGets, puts, stored, literalSend, autoSend, kaAttempts,
                   kaFails, url, verified>>

\* wait_redirect lines 528-529 and run lines 652-655: the budget is spent
WrTimeout ==
    /\ pc = "wr_loop"
    /\ iter = REDIRECT_WAIT
    /\ iter' = 0
    /\ wrResult' = "false"
    /\ logs' = logs \cup {"error_redirect_timeout"}
    /\ calls' = Append(calls, "notify")
    /\ notifyCount' = notifyCount + 1
    /\ reported' = "failure"
    /\ pendingExit' = 1
    /\ pc' = "finally"
    /\ UNCHANGED <<patternVars, relayVars, credsOk, haveSession, tgOk,
                   secretOk, ret, navUrl, browser, exitStatus, uncaught,
                   wdResult, wdHow, wdExpSeen, tfmResult, tfmSawLogin,
                   codeResult, fills, submits, failedBy, newCookie,
                   keyStatus, putStatus, keyGets, puts, stored, literalSend,
                   autoSend, kaAttempts, kaFails, url, verified, wrSeen,
                   wrOauth>>

\* run lines 657-666: the URL is read twice; then keepalive
PostVerify ==
    /\ pc = "post_verify"
    /\ \E onClaw \in {Has(u, "claw.cloud") : u \in URLs},
          onSignin \in {Has(u, "signin") : u \in URLs} :
           /\ verified' = {n \in {"claw.cloud"} : onClaw}
                               \cup {n \in {"signin"} : onSignin}
           /\ IF ~onClaw \/ onSignin
              THEN /\ calls' = Append(calls, "notify")
                   /\ notifyCount' = notifyCount + 1
                   /\ reported' = "failure"
                   /\ pendingExit' = 1
                   /\ pc' = "finally"
                   /\ UNCHANGED <<iter, ret>>
              ELSE /\ calls' = Append(calls, "keepalive")
                   /\ iter' = 0
                   /\ ret' = "extract"
                   /\ pc' = "keepalive"
                   /\ UNCHANGED <<notifyCount, reported, pendingExit>>
    /\ UNCHANGED <<patternVars, relayVars, credsOk, haveSession, tgOk,
                   secretOk, navUrl, browser, exitStatus, uncaught, logs,
                   wdResult, wdHow, wdExpSeen, tfmResult, tfmSawLogin,
                   codeResult, fills, submits, failedBy, newCookie,
                   keyStatus, putStatus, keyGets, puts, stored, literalSend,
                   autoSend, kaAttempts, kaFails, url, wrResult, wrSeen,
                   wrOauth>>

Next ==
    \/ RunStart
    \/ Launch
    \/ NewContext
    \/ Preload
    \/ Goto
    \/ CheckSignedIn
    \/ ScKeepalive
    \/ KeepaliveVisit
    \/ KeepaliveEnd
    \/ ScExtract
    \/ Extract
    \/ SaveCookie
    \/ NotifyOk
    \/ ClickGithub
    \/ ReadUrl
    \/ AuthBranch
    \/ Except
    \/ Finally
    \/ LgFill
    \/ LgSubmit
    \/ LgUrl
    \/ WdIter
    \/ WdExpiry
    \/ LgAfterDevice
    \/ Lg2fa
    \/ Lg2faKind
    \/ TfmIter
    \/ TfmTimeout
    \/ H2Wait
    \/ H2Selector
    \/ H2NotFound
    \/ LgAfter2fa
    \/ LgFlash
    \/ LoginFailed
    \/ WaitRedirect
    \/ WrIter
    \/ WrTimeout
    \/ PostVerify

Spec == InitRun /\ [][Next]_vars

\* ==== claims about the run

Range(f) == {f[k] : k \in DOMAIN f}
IsPrefix(a, b) == Len(a) <= Len(b) /\ a = SubSeq(b, 1, Len(a))

\* C4: when wait_two_factor_mobile has read a plain-login URL (a login URL
\* outside the two-factor path), it returns False and the run ends with a
\* failure report and exit status 1.
C4_LoginBounceRejects ==
    (tfmSawLogin /\ tfmResult # "none") =>
        /\ tfmResult = "false"
        /\ pc = "done" => (reported = "failure" /\ exitStatus = 1)

\* C5: when wait_device runs out its window and the URL read at expiry is on
\* neither device-verification path, it returns True and login_github does
\* not fail on the device check.
C5_DeviceRaceTolerance ==
    (wdHow = "expiry" /\ wdExpSeen = {}) =>
        /\ wdResult = "true"
        /\ failedBy # "device"

\* C5 witness: the window ran out, the URL had left, the login goes on
C5_Witness ==
    /\ wdHow = "expiry"
    /\ wdExpSeen = {}
    /\ wdResult = "true"
    /\ pc = "lg_after_device"

ShortCircuitCalls ==
    {<<"keepalive", "get_session", "save_cookie", "notify">>,
     <<"keepalive", "get_session", "notify">>}

\* C6: when the URL after the first navigation is not a sign-in URL, the run
\* does keepalive, get_session, (save_cookie,) notify(True) and nothing else:
\* no resolver, login_github, oauth or wait_redirect is entered.
C6_ShortCircuit ==
    (navUrl # NotRead /\ ~IsSignin(navUrl)) =>
        /\ \E full \in ShortCircuitCalls : IsPrefix(calls, full)
        /\ pc \in {"sc_keepalive", "keepalive", "sc_extract", "save_cookie",
                   "notify_ok", "finally", "done"}
        /\ wdResult = "none" /\ tfmResult = "none" /\ codeResult = "none"
        /\ pc \in {"finally", "done"} =>
               /\ calls \in ShortCircuitCalls
               /\ reported = "success"
               /\ notifyCount = 1
               /\ pendingExit = 0

\* C6 witness: a short-circuit run that saved a cookie and ended
C6_Witness ==
    /\ navUrl # NotRead
    /\ ~IsSignin(navUrl)
    /\ pc = "done"
    /\ calls = <<"keepalive", "get_session", "save_cookie", "notify">>
    /\ reported = "success"

StoreConfirmed == keyStatus = 200 /\ putStatus \in {201, 204}

\* C7: 'automatically updated' is logged and notified only after a key fetch
\* answered 200 and a PUT answered 201 or 204; otherwise save_cookie has made
\* at most one request of each kind, reports no automatic update, and hands
\* the literal cookie to tg.send (which posts it when the relay is configured).
C7_PersistFallback ==
    /\ keyGets <= 1
    /\ puts <= 1
    /\ ("auto_updated" \in logs \/ autoSend # "none") => StoreConfirmed
    /\ ("save_cookie" \in Range(calls) /\ ~StoreConfirmed) =>
           /\ "auto_updated" \notin logs
           /\ autoSend = "none"
           /\ ~stored
           /\ "sent_via_tg" \in logs
           /\ literalSend # "none"
           /\ tgOk => literalSend \in {"delivered", "failed"}

\* C7 witness: the PUT answered 500 and the literal cookie went to the relay
C7_Witness ==
    /\ "save_cookie" \in Range(calls)
    /\ keyStatus = 200
    /\ putStatus = 500
    /\ literalSend = "delivered"

\* C8: at the end of a run that extracted a session cookie, the cookie is
\* stored remotely or its literal value has been delivered over the relay.
C8_NeverDropped ==
    (pc = "done" /\ newCookie = "value") =>
        (stored \/ literalSend = "delivered")

\* C9: on every successful path, when get_session found no cookie, a warning
\* was logged, save_cookie was not called, and the run exits with status 0.
C9_MissingCookieWarns ==
    (reported = "success" /\ newCookie = "none") =>
        /\ "warn_no_cookie" \in logs
        /\ "save_cookie" \notin Range(calls)
        /\ pc = "done" => exitStatus = 0

\* C10: every run has called notify exactly once when the process ends.
C10_ExactlyOneReport ==
    pc = "done" => notifyCount = 1

\* C11: when the process ends after the browser was launched, browser.close()
\* has been executed; with credentials missing the browser is never launched.
C11_BrowserReleased ==
    /\ pc = "done" => browser \in {"none", "closed", "close_failed"}
    /\ ~credsOk => browser = "none"

\* C12: a run ends with exit status 0 exactly when its final report says
\* success, and with 1 after a failure report, with credentials missing, and
\* after any exception.
C12_ExitAgreesWithReport ==
    pc = "done" =>
        /\ exitStatus \in {0, 1}
        /\ exitStatus = 0 <=> reported = "success"
        /\ (reported = "failure" \/ ~credsOk \/ uncaught) => exitStatus = 1

\* the challenge resolvers and the callers of the two-step login
Resolvers == {"wait_device", "wait_two_factor_mobile", "handle_2fa_code_input"}

\* C13: when the URL read after the hand-off click is on the authorize path,
\* the branch calls oauth and goes on to wait_redirect (or to the exception
\* handler if the click raises); login_github is not called, so nothing is
\* filled and no resolver runs.
C13_AuthorizeBranchSkipsLogin ==
    [][(pc = "auth_branch" /\ "github.com/login/oauth/authorize" \in url)
          => /\ calls' = Append(calls, "oauth")
             /\ pc' \in {"wait_redirect", "except"}]_vars

\* some resolver returned False
AnyNonResolved ==
    wdResult = "false" \/ tfmResult = "false" \/ codeResult = "false"

\* C14: once a resolver has returned False, login_github has returned False
\* and the run only reports the failure and ends with status 1: oauth,
\* wait_redirect, keepalive, get_session and save_cookie are never executed.
C14_NonResolvedIsFatal ==
    AnyNonResolved =>
        /\ failedBy # "none"
        /\ pc \in {"login_failed", "finally", "done"}
        /\ Range(calls) \cap {"oauth", "wait_redirect", "keepalive",
                              "get_session", "save_cookie"} = {}
        /\ wrResult = "none" /\ wrSeen = NotRead /\ verified = NotRead
        /\ kaAttempts = 0 /\ newCookie = "unread"
        /\ keyGets = 0 /\ puts = 0 /\ literalSend = "none"
        /\ pc \in {"finally", "done"} =>
               reported = "failure" /\ notifyCount = 1 /\ pendingExit = 1
        /\ pc = "done" => exitStatus = 1

C14_Witness ==
    /\ pc = "done" /\ exitStatus = 1 /\ reported = "failure"
    /\ codeResult = "false" /\ wdResult = "true" /\ submits = 1

\* what the last test of the page before the success report read: the reads
\* at line 659 on the full path, the read at line 609 on the short-circuit
LastChecked ==
    IF verified # NotRead THEN verified ELSE navUrl \cap {"claw.cloud", "signin"}

\* C15: a run that reports success has last checked a URL that is on
\* claw.cloud and is not a sign-in URL, on the short-circuit path too.
C15_SuccessImpliesVerified ==
    reported = "success" => LastChecked = {"claw.cloud"}

C17_BestEffortLogged ==
    /\ [][kaFails' > kaFails =>
             /\ logs' # logs
             /\ pc' = "keepalive"
             /\ reported' = reported /\ pendingExit' = pendingExit]_vars
    /\ [](newCookie # "unread" => kaAttempts = NumKeepalivePages)

\* C18: at expiry of the window wait_device returns True exactly when the
\* URL it reads has neither 'verified-device' nor 'device-verification'.
C18_DeviceTimeout ==
    wdHow = "expiry" =>
        /\ wdExpSeen \subseteq DeviceNeedles
        /\ wdResult = "true" <=> wdExpSeen = {}
        /\ wdResult = "false" <=> wdExpSeen # {}

\* C19: the operator's code is submitted at most once in a run, nothing is
\* filled or submitted after the first submission, and a page still on the
\* second-factor path after it gives the rejection of that one submission.
C19_SingleSubmission ==
    /\ [](submits <= 1)
    /\ [][submits >= 1 => (fills' = fills /\ submits' = submits)]_vars
    /\ [](failedBy = "code_rejected" => (codeResult = "false" /\ submits = 1))

\* how often a method occurs in the sequence of calls
RECURSIVE Count(_, _)
Count(seq, m) ==
    IF seq = <<>> THEN 0
    ELSE (IF Head(seq) = m THEN 1 ELSE 0) + Count(Tail(seq), m)

\* the position of the first call of a method (0: never called)
RECURSIVE First(_, _)
First(seq, m) ==
    IF seq = <<>> THEN 0
    ELSE IF Head(seq) = m THEN 1
    ELSE IF First(Tail(seq), m) = 0 THEN 0 ELSE 1 + First(Tail(seq), m)

SecondFactor == {"wait_two_factor_mobile", "handle_2fa_code_input"}

\* C20: every resolver is called at most once; at most one of the two
\* second-factor resolvers is called; and when one is called after
\* wait_device, wait_device came first and had returned True.
C20_ChallengeOrder ==
    /\ \A m \in Resolvers \cup {"login_github"} : Count(calls, m) <= 1
    /\ ~(SecondFactor \subseteq Range(calls))
    /\ \A m \in SecondFactor :
           (m \in Range(calls) /\ "wait_device" \in Range(calls)) =>
               /\ First(calls, "wait_device") < First(calls, m)
               /\ wdResult = "true"
    /\ \A m \in Resolvers :
           m \in Range(calls) =>
               /\ First(calls, "login_github") > 0
               /\ First(calls, "login_github") < First(calls, m)
    /\ wdResult # "none" => "wait_device" \in Range(calls)
    /\ tfmResult # "none" => "wait_two_factor_mobile" \in Range(calls)
    /\ codeResult # "none" => "handle_2fa_code_input" \in Range(calls)

\* the device check resolved and the code resolver was then used and resolved
C20_Witness ==
    /\ calls = <<"login_github", "wait_device", "handle_2fa_code_input">>
    /\ wdResult = "true" /\ codeResult = "true" /\ tfmResult = "none"

\* C21: inside one wait_code call the cursor never decreases from one step
\* to the next, failed rounds included, and a round that examines updates
\* starts beyond every update examined by an earlier round.
C21_CursorMonotone ==
    /\ [][offset' >= offset]_vars
    /\ [][(rounds' > rounds /\ examined' # examined) =>
             /\ \A id \in examined : id < confirmed'
             /\ \A id \in examined' \ examined : id >= confirmed']_vars
    /\ [](\A id \in examined : id < offset)

\* two answered rounds examined one update each, after a failed fast-forward
C21_Witness ==
    /\ rounds >= 2 /\ staleIds = {1} /\ examined = {1, 2}
    /\ offset = 3 /\ wcResult = NoMatch

(***************************************************************************)
(* SpecFair: a process either executes one run or one wait_code call, and  *)
(* keeps executing: a sequential program whose calls all return or raise   *)
(* takes its next step.                                                    *)
(***************************************************************************)
InitEither == InitRun \/ InitRelay

NextEither ==
    \/ wcPc = "idle" /\ Next
    \/ NextRelay

SpecFair == InitEither /\ [][NextEither]_vars /\ WF_vars(NextEither)

\* the process has ended / wait_code has returned
Terminated == pc = "done" \/ wcPc = "done"

\* every wait stays inside its budget
WaitsBounded ==
    /\ pc = "wd_loop" => iter <= DEVICE_VERIFY_WAIT
    /\ pc = "tfm_loop" => iter <= TWO_FACTOR_WAIT
    /\ pc = "wr_loop" => iter <= REDIRECT_WAIT

\* a wait is left only with its budget spent, on the state it watches for,
\* or (wait_redirect) by an exception of the oauth step passing through it
WaitsEndDuly ==
    /\ (pc = "wd_loop" /\ pc' # "wd_loop") =>
           iter = DEVICE_VERIFY_WAIT \/ (wdResult' = "true" /\ wdHow' = "check")
    /\ (pc = "tfm_loop" /\ pc' # "tfm_loop") =>
           iter = TWO_FACTOR_WAIT \/ tfmResult' = "true"
               \/ failedBy' = "mobile_rejected"
    /\ (pc = "wr_loop" /\ pc' # "wr_loop") =>
           iter = REDIRECT_WAIT \/ wrResult' = "true" \/ pc' = "except"
    /\ wcPc = "done" => rounds' = rounds /\ wcPc' = "done"

\* C22: every run reaches a terminal state, and at the terminal state of a
\* run a report has been emitted; no wait exceeds its budget, each wait ends
\* only on its budget or on the state it watches for, and wait_code polls no
\* more once it has stopped.
C22_BoundedTermination ==
    /\ <>Terminated
    /\ [](pc = "done" => reported # "none")
    /\ []WaitsBounded
    /\ [][WaitsEndDuly]_vars

\* update id carries a well-formed /code message of the configured operator
WellFormedReply(id) ==
    FromOperator(msgs[id]) /\ AcceptText(msgs[id].text) # NoMatch

\* the replies sent after the instructional message
FreshReplies == {id \in 1..Len(msgs) : id > instrAt /\ WellFormedReply(id)}

\* an answered polling round has followed the fast-forward
Polled == confirmed > 1 \/ examined # {}

\* C23: with no code in the backlog, a well-formed operator reply that was
\* sent after the instruction and reached the relay before the fast-forward
\* completed is returned by wait_code once a polling round has been answered.
C23_FreshReplyNotLost ==
    (/\ wcPc = "done"
     /\ \A id \in 1..instrAt : ~WellFormedReply(id)
     /\ FreshReplies \cap staleIds # {}
     /\ Polled)
        => /\ wcResult # NoMatch
           /\ wcFrom \in FreshReplies

====
